---- MODULE Spec2Model ----
(***************************************************************************)
(* A model of cosmic-applet-sys-status: the sampler (SystemChart), the     *)
(* rolling series (PercentualUsageChart), its render cache, and the        *)
(* applet's message handling (Window).                                     *)
(*                                                                         *)
(* Units.  Instants of the monotonic clock (std::time::Instant) and of the *)
(* wall clock (chrono::DateTime<Utc>) are counted in microseconds, so that *)
(* DateTime::timestamp_millis, which drops the sub-millisecond part, is a  *)
(* real conversion.  Durations compared by the code are in milliseconds.   *)
(***************************************************************************)
EXTENDS Integers, Sequences, FiniteSets, TLC

(***************************************************************************)
(* Program constants.                                                      *)
(***************************************************************************)
\* chart.rs:25  const PLOT_SECONDS: usize = 60;
PLOT_SECONDS == 60

\* chart.rs:26  const SAMPLE_EVERY: Duration = Duration::from_millis(1000);
SAMPLE_EVERY_MS == 1000

\* microseconds in a millisecond / milliseconds in a second (unit conversions)
MicrosPerMilli == 1000
MillisPerSec == 1000

\* chart.rs:229  the fixed value domain 0..100 of the chart
Y_MIN == 0
Y_MAX == 100

(***************************************************************************)
(* IEEE-754 binary64 arithmetic, as far as update() uses it                *)
(* (chart.rs:74-76): u64 -> f64, f64 / f64, f64 * 100.0, f64 -> i32.       *)
(* A positive double is a record [m, e]: m is its 53-bit significand, most *)
(* significant bit first (m[1] = 1), and e the exponent of that bit, so    *)
(* its value is the sum of m[i] * 2^(e - i + 1).  Zero is F64Zero.         *)
(***************************************************************************)
\* width of the binary64 significand
F64_SIG_BITS == 53

F64Zero == [m |-> <<>>, e |-> 0]

Zeros(n) == [i \in 1..n |-> 0]

RECURSIVE NatBits(_)
\* the binary digits of a natural number, most significant first
NatBits(n) == IF n = 0 THEN <<>> ELSE Append(NatBits(n \div 2), n % 2)

RECURSIVE BitsNat(_, _)
\* the natural number the first n digits of the bit string b denote
BitsNat(b, n) == IF n = 0 THEN 0 ELSE 2 * BitsNat(b, n - 1) + b[n]

\* b + 1 on a bit string that is not all ones: the lowest 0 becomes 1 and
\* the ones below it become 0
Increment(b) ==
    LET p == CHOOSE i \in 1..Len(b) :
                 b[i] = 0 /\ \A j \in (i + 1)..Len(b) : b[j] = 1
    IN  [i \in 1..Len(b) |-> IF i < p THEN b[i] ELSE IF i = p THEN 1 ELSE 0]

\* Round to nearest, ties to even: exact is the exact significand (leading
\* bit 1, any length), e the exponent of its leading bit, sticky whether
\* nonzero digits follow it.
F64Round(exact, e, sticky) ==
    IF Len(exact) <= F64_SIG_BITS
    THEN [m |-> exact \o Zeros(F64_SIG_BITS - Len(exact)), e |-> e]
    ELSE LET kept  == SubSeq(exact, 1, F64_SIG_BITS)
             guard == exact[F64_SIG_BITS + 1]
             rest  == \/ sticky
                      \/ \E i \in (F64_SIG_BITS + 2)..Len(exact) : exact[i] = 1
             up    == guard = 1 /\ (rest \/ kept[F64_SIG_BITS] = 1)
         IN  IF ~up THEN [m |-> kept, e |-> e]
             ELSE IF \A i \in 1..F64_SIG_BITS : kept[i] = 1
                  THEN [m |-> <<1>> \o Zeros(F64_SIG_BITS - 1), e |-> e + 1]
                  ELSE [m |-> Increment(kept), e |-> e]

\* `n as f64` for a u64 below 2^53: exact
F64FromNat(n) ==
    IF n = 0 THEN F64Zero
    ELSE F64Round(NatBits(n), Len(NatBits(n)) - 1, FALSE)

RECURSIVE ScaleUp(_, _, _)
\* the least k with a * 2^k >= b, for 0 < a
ScaleUp(a, b, k) == IF a >= b THEN k ELSE ScaleUp(2 * a, b, k + 1)

RECURSIVE ScaleDown(_, _, _)
\* the greatest j with b * 2^j <= a, for 0 < b <= a
ScaleDown(a, b, j) == IF 2 * b > a THEN j ELSE ScaleDown(a, 2 * b, j + 1)

RECURSIVE Pow2(_)
Pow2(k) == IF k = 0 THEN 1 ELSE 2 * Pow2(k - 1)

RECURSIVE DivBits(_, _, _, _)
\* long division of r / d (0 <= r < d): the quotient digits acc so far,
\* continued to n digits, and the remainder left: <<digits, remainder>>
DivBits(r, d, acc, n) ==
    IF Len(acc) = n THEN <<acc, r>>
    ELSE LET bit == IF 2 * r >= d THEN 1 ELSE 0
         IN  DivBits(2 * r - bit * d, d, Append(acc, bit), n)

\* `a as f64 / b as f64` for naturals a, b with b > 0: the correctly rounded
\* quotient (both operands are exact doubles)
F64DivNat(a, b) ==
    IF a = 0 THEN F64Zero
    ELSE LET k   == IF a < b THEN ScaleUp(a, b, 0) ELSE 0
             j   == IF a < b THEN 0 ELSE ScaleDown(a, b, 0)
             num == a * Pow2(k)
             den == b * Pow2(j)
             \* num / den lies in [1, 2): leading digit 1, then 53 more
             dig == DivBits(num - den, den, <<1>>, F64_SIG_BITS + 1)
         IN  F64Round(dig[1], j - k, dig[2] # 0)

RECURSIVE MulBits(_, _, _, _)
\* x * n on a bit string x and a small natural n, from the last digit of x
\* to the first: acc holds the digits done, c the carry
MulBits(x, n, c, acc) ==
    IF Len(acc) = Len(x) THEN NatBits(c) \o acc
    ELSE LET t == n * x[Len(x) - Len(acc)] + c
         IN  MulBits(x, n, t \div 2, <<t % 2>> \o acc)

\* `x * (n as f64)` for a double x and a small natural n > 0 (an exact
\* double): the exact product of the significands, rounded
F64MulNat(x, n) ==
    IF x = F64Zero THEN F64Zero
    ELSE LET prod == MulBits(x.m, n, 0, <<>>)
         IN  F64Round(prod, x.e + (Len(prod) - F64_SIG_BITS), FALSE)

\* `x as i32` for a double x with 0 <= x < 2^31: the integer part
F64ToI32(x) ==
    IF x = F64Zero \/ x.e < 0 THEN 0
    ELSE BitsNat(x.m, x.e + 1)

\* chart.rs:74-76
\*   let total_memory = self.sys.total_memory() as f64;
\*   let used_memory = self.sys.used_memory() as f64;
\*   let memory_data = ((used_memory / total_memory) * 100.0) as i32;
MemoryData(used_memory, total_memory) ==
    F64ToI32(F64MulNat(F64DivNat(used_memory, total_memory), 100))

(***************************************************************************)
(* Option<T>: None is the empty sequence, Some(x) the one-element one.     *)
(***************************************************************************)
None == <<>>
Some(x) == <<x>>
IsSome(o) == o # <<>>
Unwrap(o) == o[1]

Last(s) == s[Len(s)]
Front(s) == SubSeq(s, 1, Len(s) - 1)

(***************************************************************************)
(* std::time::Duration: whole seconds (a u64) and nanoseconds below a      *)
(* second, compared in that order.  A u64 is four 16-bit limbs, most       *)
(* significant first.                                                      *)
(***************************************************************************)
\* the base of a limb, 2^16
LIMB == 65536

\* nanoseconds in a millisecond / in a microsecond
NANOS_PER_MILLI == 1000000
NANOS_PER_MICRO == 1000

\* `d as u64` for an i64 d with |d| < 2^31: the two's complement digits
\* (a negative d wraps to 2^64 + d)
AsU64(d) ==
    LET ext == IF d < 0 THEN LIMB - 1 ELSE 0
    IN  <<ext, ext, (d \div LIMB) % LIMB, d % LIMB>>

RECURSIVE U64DivMod(_, _, _, _)
\* u divided by a small n, limb by limb: <<quotient, remainder>>
U64DivMod(u, n, acc, r) ==
    IF Len(acc) = Len(u) THEN <<acc, r>>
    ELSE LET t == r * LIMB + u[Len(acc) + 1]
         IN  U64DivMod(u, n, Append(acc, t \div n), t % n)

RECURSIVE U64Less(_, _)
\* a < b on u64 limbs
U64Less(a, b) ==
    IF a = <<>> THEN FALSE
    ELSE IF a[1] # b[1] THEN a[1] < b[1] ELSE U64Less(Tail(a), Tail(b))

\* Duration::from_millis(millis: u64)
DurationFromMillis(millis) ==
    LET qr == U64DivMod(millis, MillisPerSec, <<>>, 0)
    IN  [secs |-> qr[1], nanos |-> qr[2] * NANOS_PER_MILLI]

\* Duration::from_secs(secs: u64), for secs < 2^31
DurationFromSecs(secs) == [secs |-> AsU64(secs), nanos |-> 0]

\* the Duration between two Instants `micros` microseconds apart
DurationFromMicros(micros) ==
    [secs  |-> AsU64(micros \div (MicrosPerMilli * MillisPerSec)),
     nanos |-> (micros % (MicrosPerMilli * MillisPerSec)) * NANOS_PER_MICRO]

\* a > b on Durations (derived PartialOrd: secs, then nanos)
DurationGt(a, b) ==
    \/ U64Less(b.secs, a.secs)
    \/ a.secs = b.secs /\ a.nanos > b.nanos

\* chart.rs:26
SAMPLE_EVERY == DurationFromMillis(AsU64(SAMPLE_EVERY_MS))

\* DateTime::timestamp_millis: whole milliseconds since the epoch; the
\* sub-millisecond part of the instant is dropped
TimestampMillis(time) == time \div MicrosPerMilli

\* `x as i32` for a finite f32 given in quarters of a percent (every such
\* value is an exact f32): rounds toward zero
F32ToI32(quarters) ==
    IF quarters >= 0 THEN quarters \div 4 ELSE -((-quarters) \div 4)

(***************************************************************************)
(* Bounds and the inputs the environment supplies.                         *)
(***************************************************************************)
\* accepted samples in a run of the applet
MaxSamples == 3

\* push_data calls on the series of the series specification
MaxPushes == 3

\* what the monotonic clock has advanced by when a Tick reads it
\* (microseconds): not at all, exactly the sampling interval, a bit more
Elapses == {0, SAMPLE_EVERY_MS * MicrosPerMilli, SAMPLE_EVERY_MS * MicrosPerMilli + 1}

\* what Utc::now() returns at a sample (microseconds since the epoch); the
\* wall clock is not tied to the monotonic one and may step back
UtcNows == {0, 61000000}

\* what the metric source holds after refresh_all(): the global CPU usage
\* (an f32, in quarters of a percent) and the memory counters (bytes)
Readings ==
    { [cpu_usage |-> -22, total_memory |-> 8192, used_memory |-> 4096],
      [cpu_usage |-> 170, total_memory |-> 20000000, used_memory |-> 5800000],
      [cpu_usage |-> 548, total_memory |-> 8192, used_memory |-> 4096] }

\* the timestamps and values pushed in the series specification
PushTimes == {0, 30000000, 60000000, 60000500, 61000000}
PushValues == {10, 40, 90}

\* the sizes a chart widget is drawn at (the popup is 300 to 475 wide,
\* window.rs:126-130; the chart is 180 high, chart.rs:47)
Bounds == {<<300, 180>>, <<475, 180>>}

VARIABLES
    now,               \* the monotonic clock, as Instant::now() reads it
    sys,               \* SystemChart.sys: the metric source's last refresh
    last_sample_time,  \* SystemChart.last_sample_time
    cpu,               \* SystemChart.cpu: Option<PercentualUsageChart>
    memory,            \* SystemChart.memory: Option<PercentualUsageChart>
    config,            \* Window.config
    popup,             \* Window.popup: Option<Id>
    refreshes,         \* how many times sys.refresh_all() has run
    inserted,          \* per series: a sample was inserted since its
                       \* geometry was last built
    series,            \* a PercentualUsageChart on its own
    pushed             \* the samples `series` was made of and given,
                       \* oldest first

vars == <<now, sys, last_sample_time, cpu, memory, config, popup,
          refreshes, inserted, series, pushed>>

applet_vars == <<now, sys, last_sample_time, cpu, memory, config, popup,
                 refreshes, inserted>>

series_vars == <<series, pushed>>

(***************************************************************************)
(* PercentualUsageChart (chart.rs:158-202).  The color is cosmetic and     *)
(* left out.  A sample is <<time, value>>; data_points is newest first.    *)
(***************************************************************************)
\* NewChart, had the limit been a second longer than the window
\* (Duration::from_secs(PLOT_SECONDS as u64 + 1))
NewChart_limit_plus_one(data) ==
    [cache       |-> None,
     data_points |-> data,
     limit       |-> DurationFromSecs(PLOT_SECONDS + 1)]

\* chart.rs:166-174  PercentualUsageChart::new
NewChart(data) ==
    [cache       |-> None,
     data_points |-> data,
     limit       |-> DurationFromSecs(PLOT_SECONDS)]

\* BackExpired, had the difference been taken for microseconds
\* (Duration::from_micros): nothing in a minute-long window expires
BackExpired_micros(data_points, cur_ms, limit) ==
    /\ data_points # <<>>
    /\ LET diff == DurationFromMicros(
                       cur_ms - TimestampMillis(Last(data_points)[1]))
       IN  DurationGt(diff, limit)

\* BackExpired, had the comparison been `diff >= self.limit`
BackExpired_ge(data_points, cur_ms, limit) ==
    /\ data_points # <<>>
    /\ LET diff == DurationFromMillis(
                       AsU64(cur_ms - TimestampMillis(Last(data_points)[1])))
       IN  ~DurationGt(limit, diff)

\* chart.rs:180-186  is the back sample older than the limit?
BackExpired(data_points, cur_ms, limit) ==
    /\ data_points # <<>>
    /\ LET diff == DurationFromMillis(
                       AsU64(cur_ms - TimestampMillis(Last(data_points)[1])))
       IN  DurationGt(diff, limit)

RECURSIVE Evict_pop_front(_, _, _)
\* Evict, had the loop called pop_front() where it calls pop_back()
Evict_pop_front(data_points, cur_ms, limit) ==
    IF BackExpired(data_points, cur_ms, limit)
    THEN Evict_pop_front(Tail(data_points), cur_ms, limit)
    ELSE data_points

RECURSIVE Evict(_, _, _)
\* chart.rs:179-188  the eviction loop
Evict(data_points, cur_ms, limit) ==
    IF BackExpired(data_points, cur_ms, limit)
    THEN Evict(Front(data_points), cur_ms, limit)
    ELSE data_points

\* PushData, had it not ended with self.cache.clear()
PushData_no_clear(chart, time, value) ==
    LET cur_ms == TimestampMillis(time)
        front  == <<<<time, value>>>> \o chart.data_points
    IN  [chart EXCEPT !.data_points = Evict(front, cur_ms, chart.limit)]

\* PushData, had it inserted with push_back()
PushData_push_back(chart, time, value) ==
    LET cur_ms == TimestampMillis(time)
        back   == chart.data_points \o <<<<time, value>>>>
    IN  [chart EXCEPT !.data_points = Evict(back, cur_ms, chart.limit),
                      !.cache = None]

\* chart.rs:176-190  PercentualUsageChart::push_data
PushData(chart, time, value) ==
    LET cur_ms == TimestampMillis(time)
        front  == <<<<time, value>>>> \o chart.data_points
    IN  [chart EXCEPT !.data_points = Evict(front, cur_ms, chart.limit),
                      !.cache = None]

\* BuildChart, had oldest_time been the timestamp of the oldest sample (the
\* back one) where it is the newest less the window
BuildChart_oldest_from_back(chart) ==
    LET newest_time == IF chart.data_points # <<>>
                       THEN chart.data_points[1][1]
                       ELSE 0
        oldest_time == IF chart.data_points # <<>>
                       THEN Last(chart.data_points)[1]
                       ELSE 0
    IN  [x      |-> <<oldest_time, newest_time>>,
         y      |-> <<Y_MIN, Y_MAX>>,
         points |-> chart.data_points]

\* BuildChart, had the series been handed self.data_points.iter().rev()
BuildChart_rev(chart) ==
    LET newest_time == IF chart.data_points # <<>>
                       THEN chart.data_points[1][1]
                       ELSE 0
        oldest_time == newest_time
                         - PLOT_SECONDS * MillisPerSec * MicrosPerMilli
        n           == Len(chart.data_points)
    IN  [x      |-> <<oldest_time, newest_time>>,
         y      |-> <<Y_MIN, Y_MAX>>,
         points |-> [i \in 1..n |-> chart.data_points[n + 1 - i]]]

\* BuildChart, had it drawn the placeholder sample (the zero instant, 0)
\* it reads the newest timestamp of a series without samples from
BuildChart_draws_placeholder(chart) ==
    LET front       == IF chart.data_points # <<>>
                       THEN chart.data_points[1]
                       ELSE <<0, 0>>
        newest_time == front[1]
        oldest_time == newest_time
                         - PLOT_SECONDS * MillisPerSec * MicrosPerMilli
    IN  [x      |-> <<oldest_time, newest_time>>,
         y      |-> <<Y_MIN, Y_MAX>>,
         points |-> IF chart.data_points # <<>>
                    THEN chart.data_points
                    ELSE <<front>>]

\* chart.rs:217-258  build_chart: what the chart is built from
BuildChart(chart) ==
    LET newest_time == IF chart.data_points # <<>>
                       THEN chart.data_points[1][1]
                       ELSE 0
        oldest_time == newest_time
                         - PLOT_SECONDS * MillisPerSec * MicrosPerMilli
    IN  [x      |-> <<oldest_time, newest_time>>,
         y      |-> <<Y_MIN, Y_MAX>>,
         points |-> chart.data_points]

\* chart.rs:207-215  draw: renderer.draw_cache(&self.cache, bounds, draw_fn)
\* hands back the cached geometry when the cache holds one for these
\* bounds, and otherwise builds the chart and caches it
CacheHit(chart, bounds) ==
    IsSome(chart.cache) /\ Unwrap(chart.cache).bounds = bounds

\* DrawChart, had a rebuild dropped the samples it does not draw (those
\* behind the front one) from the series
DrawChart_trims(chart, bounds) ==
    IF CacheHit(chart, bounds) THEN chart
    ELSE [chart EXCEPT !.cache =
              Some([bounds |-> bounds, geometry |-> BuildChart(chart)]),
                       !.data_points = SubSeq(@, 1, 1)]

DrawChart(chart, bounds) ==
    IF CacheHit(chart, bounds) THEN chart
    ELSE [chart EXCEPT !.cache =
              Some([bounds |-> bounds, geometry |-> BuildChart(chart)])]

(***************************************************************************)
(* SystemChart (chart.rs:28-156).                                          *)
(***************************************************************************)
\* config.rs:6-18  Config has no fields: it has one value
Configs == {[version |-> 1]}

\* chart.rs:55-58
is_initialized == IsSome(cpu)

\* should_update, had the comparison been `elapsed() >= SAMPLE_EVERY`
should_update_ge(at) ==
    \/ ~is_initialized
    \/ ~DurationGt(SAMPLE_EVERY, DurationFromMicros(at - last_sample_time))

\* should_update, had it left out `!self.is_initialized() ||`
should_update_elapsed_only(at) ==
    DurationGt(DurationFromMicros(at - last_sample_time), SAMPLE_EVERY)

\* chart.rs:60-63  should_update, with Instant::now() reading `at`
should_update(at) ==
    \/ ~is_initialized
    \/ DurationGt(DurationFromMicros(at - last_sample_time), SAMPLE_EVERY)

\* chart.rs:73  self.sys.global_cpu_info().cpu_usage() as i32
CpuData(s) == F32ToI32(s.cpu_usage)

\* chart.rs:74-76 for each reading of the metric source (MemoryData,
\* evaluated once per reading)
MemoryDataOf ==
    [r \in Readings |-> MemoryData(r.used_memory, r.total_memory)]

\* SystemChartUpdate, had it stamped last_sample_time before the gate
SystemChartUpdate_stamp_first(elapse, utc, reading) ==
    LET at == now + elapse
    IN  /\ now' = at
        /\ last_sample_time' = at
        /\ IF ~should_update(at)
           THEN UNCHANGED <<sys, cpu, memory, refreshes, inserted>>
           ELSE /\ refreshes < MaxSamples
                /\ sys' = reading
                /\ refreshes' = refreshes + 1
                /\ inserted' = [cpu |-> TRUE, memory |-> TRUE]
                /\ IF ~is_initialized
                   THEN /\ cpu' = Some(NewChart(<<<<utc, CpuData(reading)>>>>))
                        /\ memory' = Some(NewChart(
                                          <<<<utc, MemoryDataOf[reading]>>>>))
                   ELSE /\ cpu' = Some(PushData(Unwrap(cpu), utc,
                                                CpuData(reading)))
                        /\ memory' = Some(PushData(Unwrap(memory), utc,
                                                   MemoryDataOf[reading]))

\* SystemChartUpdate, had the first sample made the CPU series only and
\* the Memory series been made by the next one
SystemChartUpdate_cpu_first(elapse, utc, reading) ==
    LET at == now + elapse
    IN  /\ now' = at
        /\ IF ~should_update(at)
           THEN UNCHANGED <<sys, last_sample_time, cpu, memory, refreshes,
                            inserted>>
           ELSE LET cpu_data    == CpuData(reading)
                    memory_data == MemoryDataOf[reading]
                IN  /\ refreshes < MaxSamples
                    /\ sys' = reading
                    /\ refreshes' = refreshes + 1
                    /\ last_sample_time' = at
                    /\ inserted' = [cpu |-> TRUE, memory |-> TRUE]
                    /\ IF ~is_initialized
                       THEN /\ cpu' = Some(NewChart(<<<<utc, cpu_data>>>>))
                            /\ memory' = None
                       ELSE /\ cpu' = Some(PushData(Unwrap(cpu), utc, cpu_data))
                            /\ memory' =
                                 IF IsSome(memory)
                                 THEN Some(PushData(Unwrap(memory), utc,
                                                    memory_data))
                                 ELSE Some(NewChart(<<<<utc, memory_data>>>>))

\* SystemChartUpdate, had it read Utc::now() again for the Memory sample,
\* a millisecond after the CPU sample's
SystemChartUpdate_two_stamps(elapse, utc, reading) ==
    LET at == now + elapse
    IN  /\ now' = at
        /\ IF ~should_update(at)
           THEN UNCHANGED <<sys, last_sample_time, cpu, memory, refreshes,
                            inserted>>
           ELSE LET cpu_data    == CpuData(reading)
                    memory_data == MemoryDataOf[reading]
                    later       == utc + MicrosPerMilli
                IN  /\ refreshes < MaxSamples
                    /\ sys' = reading
                    /\ refreshes' = refreshes + 1
                    /\ last_sample_time' = at
                    /\ inserted' = [cpu |-> TRUE, memory |-> TRUE]
                    /\ IF ~is_initialized
                       THEN /\ cpu' = Some(NewChart(<<<<utc, cpu_data>>>>))
                            /\ memory' = Some(NewChart(<<<<later, memory_data>>>>))
                       ELSE /\ cpu' = Some(PushData(Unwrap(cpu), utc, cpu_data))
                            /\ memory' = Some(PushData(Unwrap(memory), later,
                                                       memory_data))

\* chart.rs:65-99  SystemChart::update.  The monotonic clock has advanced
\* by `elapse` when should_update reads it; `reading` is what refresh_all
\* finds and `utc` what Utc::now() returns.  Instant::now() on line 71 is
\* read at the same instant: a refresh that takes time leaves the state a
\* later Tick with no such delay leaves.
SystemChartUpdate(elapse, utc, reading) ==
    LET at == now + elapse
    IN  /\ now' = at
        /\ IF ~should_update(at)
           THEN UNCHANGED <<sys, last_sample_time, cpu, memory, refreshes,
                            inserted>>
           ELSE LET cpu_data    == CpuData(reading)
                    memory_data == MemoryDataOf[reading]
                IN  /\ refreshes < MaxSamples
                    /\ sys' = reading
                    /\ refreshes' = refreshes + 1
                    /\ last_sample_time' = at
                    /\ inserted' = [cpu |-> TRUE, memory |-> TRUE]
                    /\ IF ~is_initialized
                       THEN /\ cpu' = Some(NewChart(<<<<utc, cpu_data>>>>))
                            /\ memory' = Some(NewChart(<<<<utc, memory_data>>>>))
                       ELSE /\ cpu' = Some(PushData(Unwrap(cpu), utc, cpu_data))
                            /\ memory' = Some(PushData(Unwrap(memory), utc,
                                                       memory_data))

\* what view() shows while there is nothing to chart (chart.rs:103), the
\* titles of the two charts (chart.rs:128, 140), and what Option::unwrap
\* makes of a missing series
Loading == <<"Loading...">>
Charts == <<"CPU", "Memory">>
Panic == <<"panic">>

\* SystemChartView, had it gone to the series without asking
\* is_initialized()
SystemChartView_no_guard ==
    IF IsSome(cpu) /\ IsSome(memory) THEN Charts ELSE Panic

\* chart.rs:101-155  SystemChart::view: what is shown.  Past the
\* is_initialized() test both series are unwrapped (lines 128, 136-139).
SystemChartView ==
    IF ~is_initialized THEN Loading
    ELSE IF IsSome(cpu) /\ IsSome(memory) THEN Charts
    ELSE Panic

(***************************************************************************)
(* Window (window.rs:43-239).                                              *)
(***************************************************************************)
\* window.rs:110  Message::Tick => self.chart.update()
Tick(elapse, utc, reading) ==
    /\ SystemChartUpdate(elapse, utc, reading)
    /\ UNCHANGED <<config, popup, series_vars>>

\* ConfigMessage, had it made the chart anew (SystemChart::new) on a
\* configuration message
ConfigMessage_new_chart(c) ==
    /\ config' = IF c # config THEN c ELSE config
    /\ cpu' = None
    /\ memory' = None
    /\ last_sample_time' = now
    /\ inserted' = [cpu |-> FALSE, memory |-> FALSE]
    /\ UNCHANGED <<now, sys, popup, refreshes, series_vars>>

\* window.rs:111-115  Message::Config(config)
ConfigMessage(c) ==
    /\ config' = IF c # config THEN c ELSE config
    /\ UNCHANGED <<now, sys, last_sample_time, cpu, memory, popup, refreshes,
                   inserted, series_vars>>

\* window.rs:116-133  Message::TogglePopup (Id::unique() is one token here)
TogglePopup ==
    /\ popup' = IF IsSome(popup) THEN None ELSE Some("Id")
    /\ UNCHANGED <<now, sys, last_sample_time, cpu, memory, config, refreshes,
                   inserted, series_vars>>

\* window.rs:147-209  view_window, for the popup: reads the state only
ViewWindow ==
    /\ IsSome(popup)
    /\ SystemChartView \in {Loading, Charts}
    /\ UNCHANGED vars

\* chart.rs:192-215  the ChartWidget of the CPU series, shown in the popup,
\* is drawn at `bounds`
DrawCpu(bounds) ==
    /\ IsSome(popup)
    /\ is_initialized
    /\ cpu' = Some(DrawChart(Unwrap(cpu), bounds))
    /\ inserted' = [inserted EXCEPT !.cpu =
                      IF CacheHit(Unwrap(cpu), bounds) THEN @ ELSE FALSE]
    /\ UNCHANGED <<now, sys, last_sample_time, memory, config, popup,
                   refreshes, series_vars>>

\* the same for the Memory series
DrawMemory(bounds) ==
    /\ IsSome(popup)
    /\ is_initialized
    /\ memory' = Some(DrawChart(Unwrap(memory), bounds))
    /\ inserted' = [inserted EXCEPT !.memory =
                      IF CacheHit(Unwrap(memory), bounds) THEN @ ELSE FALSE]
    /\ UNCHANGED <<now, sys, last_sample_time, cpu, config, popup,
                   refreshes, series_vars>>

\* chart.rs:38-51  SystemChart::new, and window.rs:57-82  Window::init
Init ==
    /\ now = 0
    /\ sys = [cpu_usage |-> 0, total_memory |-> 0, used_memory |-> 0]
    /\ last_sample_time = 0
    /\ cpu = None
    /\ memory = None
    /\ config \in Configs
    /\ popup = None
    /\ refreshes = 0
    /\ inserted = [cpu |-> FALSE, memory |-> FALSE]
    /\ series = None
    /\ pushed = <<>>

TickStep == \E e \in Elapses, u \in UtcNows, r \in Readings : Tick(e, u, r)
ConfigStep == \E c \in Configs : ConfigMessage(c)
DrawCpuStep == \E b \in Bounds : DrawCpu(b)
DrawMemoryStep == \E b \in Bounds : DrawMemory(b)

Next ==
    \/ TickStep
    \/ ConfigStep
    \/ TogglePopup
    \/ ViewWindow
    \/ DrawCpuStep
    \/ DrawMemoryStep

Spec == Init /\ [][Next]_vars

(***************************************************************************)
(* A PercentualUsageChart on its own: made from its first sample, as       *)
(* update() makes it (chart.rs:80-87), and then given samples with any     *)
(* timestamps by push_data.                                                *)
(***************************************************************************)
\* chart.rs:80-83  PercentualUsageChart::new(vec![(now, data)].into_iter(), ..)
SeriesNew(time, value) ==
    /\ series = None
    /\ series' = Some(NewChart(<<<<time, value>>>>))
    /\ pushed' = <<<<time, value>>>>
    /\ UNCHANGED applet_vars

\* chart.rs:89-92  .push_data(now, data)
SeriesPush(time, value) ==
    /\ IsSome(series)
    /\ Len(pushed) <= MaxPushes
    /\ series' = Some(PushData(Unwrap(series), time, value))
    /\ pushed' = Append(pushed, <<time, value>>)
    /\ UNCHANGED applet_vars

SeriesNewStep == \E t \in PushTimes, v \in PushValues : SeriesNew(t, v)
SeriesPushStep == \E t \in PushTimes, v \in PushValues : SeriesPush(t, v)

SeriesNext ==
    \/ SeriesNewStep
    \/ SeriesPushStep

SeriesSpec == Init /\ [][SeriesNext]_vars

(***************************************************************************)
(* Drawing a PercentualUsageChart on its own.  build_chart provides for a  *)
(* series without samples (chart.rs:219-223), which new() makes of an      *)
(* empty iterator; update() only ever hands new() one sample.  Here the    *)
(* series is made from either, given samples with any timestamps, and      *)
(* drawn.                                                                  *)
(***************************************************************************)
\* push_data calls on the series that is drawn
MaxDrawnPushes == 2

\* what new() is handed: no sample, or one
DrawnData == {<<>>} \cup {<<<<t, v>>>> : t \in PushTimes, v \in PushValues}

\* chart.rs:166-174  PercentualUsageChart::new(data, color)
SeriesFrom(data) ==
    /\ series = None
    /\ series' = Some(NewChart(data))
    /\ pushed' = data
    /\ UNCHANGED applet_vars

\* chart.rs:176-190  push_data(time, value) on the series that is drawn
DrawnPush(time, value) ==
    /\ IsSome(series)
    /\ Len(pushed) < MaxDrawnPushes
    /\ series' = Some(PushData(Unwrap(series), time, value))
    /\ pushed' = Append(pushed, <<time, value>>)
    /\ UNCHANGED applet_vars

\* chart.rs:207-215  draw(renderer, bounds, draw_fn) on the series
SeriesDraw(bounds) ==
    /\ IsSome(series)
    /\ series' = Some(DrawChart(Unwrap(series), bounds))
    /\ UNCHANGED <<applet_vars, pushed>>

SeriesFromStep == \E d \in DrawnData : SeriesFrom(d)
DrawnPushStep == \E t \in PushTimes, v \in PushValues : DrawnPush(t, v)
SeriesDrawStep == \E b \in Bounds : SeriesDraw(b)

DrawNext ==
    \/ SeriesFromStep
    \/ DrawnPushStep
    \/ SeriesDrawStep

DrawSpec == Init /\ [][DrawNext]_vars

(***************************************************************************)
(* The history buffer under regular sampling: a PercentualUsageChart made  *)
(* from its first sample and pushed to with timestamps that advance by at  *)
(* least the sampling interval, as should_update (chart.rs:60-63) spaces   *)
(* the samples when the wall clock keeps pace with the monotonic one.  The *)
(* history `pushed` is not kept here.                                      *)
(***************************************************************************)
\* how far the timestamps of the buffer run, in seconds
MaxBufferSeconds == 64

\* the first timestamp (microseconds): on a whole millisecond or between two
BufferStarts == {0, 500}

\* what the timestamp advances by from one sample to the next
\* (microseconds): the sampling interval exactly, or half a window
BufferAdvances ==
    { SAMPLE_EVERY_MS * MicrosPerMilli,
      (PLOT_SECONDS \div 2) * MillisPerSec * MicrosPerMilli }

\* the values sampled: they play no part in eviction
BufferValues == {50}

\* chart.rs:80-83  PercentualUsageChart::new(vec![(now, data)].into_iter(), ..)
BufferNew(time, value) ==
    /\ series = None
    /\ series' = Some(NewChart(<<<<time, value>>>>))
    /\ UNCHANGED <<applet_vars, pushed>>

\* chart.rs:89-92  .push_data(now, data), `advance` after the sample before
BufferPush(advance, value) ==
    /\ IsSome(series)
    /\ LET time == Unwrap(series).data_points[1][1] + advance
       IN  /\ time <= MaxBufferSeconds * MillisPerSec * MicrosPerMilli
           /\ series' = Some(PushData(Unwrap(series), time, value))
    /\ UNCHANGED <<applet_vars, pushed>>

BufferNewStep == \E t \in BufferStarts, v \in BufferValues : BufferNew(t, v)
BufferPushStep == \E a \in BufferAdvances, v \in BufferValues : BufferPush(a, v)

BufferNext ==
    \/ BufferNewStep
    \/ BufferPushStep

BufferSpec == Init /\ [][BufferNext]_vars

(***************************************************************************)
(* The claims.                                                             *)
(***************************************************************************)
\* the window of a series, in milliseconds and in microseconds
WindowMillis == PLOT_SECONDS * MillisPerSec
WindowMicros == WindowMillis * MicrosPerMilli

SeriesPoints == Unwrap(series).data_points

StrictlyIncreasing(h) == \A i \in 1..(Len(h) - 1) : h[i][1] < h[i + 1][1]
NonDecreasing(h) == \A i \in 1..(Len(h) - 1) : h[i][1] <= h[i + 1][1]

C2_PushKeepsItsSample ==
    IsSome(series) =>
        /\ SeriesPoints # <<>>
        /\ SeriesPoints[1] = Last(pushed)
        /\ Len(pushed) = 1 => Len(SeriesPoints) = 1

\* C2's case: a push that evicted every older sample and kept its own
C2_Witness ==
    /\ IsSome(series)
    /\ Len(pushed) = 3
    /\ SeriesPoints = <<Last(pushed)>>

\* the samples of data_points no more than `span` older than `t`, `unit`
\* being 1 for exact timestamps and MicrosPerMilli for whole milliseconds
Kept(data_points, t, unit, span) ==
    LET InWindow(s) == (t \div unit) - (s[1] \div unit) <= span
    IN  SelectSeq(data_points, InWindow)

\* a step that is a push_data call on the series
IsPush == IsSome(series) /\ pushed' # pushed

IntervalMicros == SAMPLE_EVERY_MS * MicrosPerMilli

Names == {"cpu", "memory"}
Chart(n) == IF n = "cpu" THEN cpu ELSE memory
Points(o) == IF IsSome(o) THEN Unwrap(o).data_points ELSE <<>>

IsPrefix(a, b) == Len(a) <= Len(b) /\ a = SubSeq(b, 1, Len(a))

\* a step in which update() took a sample
Sampled == refreshes' = refreshes + 1

\* a step that put one sample at the front of a series and evicted, if
\* anything, from its back
OneSampleAdded(old, new) ==
    /\ IsSome(new)
    /\ Points(new) # <<>>
    /\ IsPrefix(Tail(Points(new)), Points(old))

\* C3: update() samples if and only if the applet has never sampled or more
\* than 1000 ms have passed on the monotonic clock since the last sample;
\* a sampling update refreshes the metric source once, adds one sample to
\* each series and resets the last-sample instant, so that consecutive
\* samples are more than 1000 ms apart.
C3_SamplesWhenDue ==
    [][TickStep =>
          /\ Sampled <=> (\/ ~is_initialized
                          \/ now' - last_sample_time > IntervalMicros)
          /\ ~Sampled => refreshes' = refreshes /\ sys' = sys
          /\ Sampled =>
                /\ sys' \in Readings
                /\ OneSampleAdded(cpu, cpu')
                /\ OneSampleAdded(memory, memory')
                /\ Points(cpu')[1][1] = Points(memory')[1][1]
                /\ last_sample_time' = now'
                /\ is_initialized =>
                       last_sample_time' - last_sample_time > IntervalMicros
      ]_vars

\* C3's case: a second sample was accepted, one interval and a microsecond
\* after the first
C3_Witness ==
    /\ refreshes = 2
    /\ last_sample_time = IntervalMicros + 1
    /\ Len(Points(cpu)) = 2
    /\ Len(Points(memory)) = 2

\* C4: an update() the interval gate rejects reads no metric and leaves the
\* samples and render caches of both series, the last-sample instant and
\* the initialized state as they were.
C4_RejectedTickIsNoOp ==
    [][(TickStep /\ is_initialized
          /\ now' - last_sample_time <= IntervalMicros) =>
          UNCHANGED <<sys, refreshes, last_sample_time, cpu, memory, inserted>>
      ]_vars

\* C4's case: a Tick came exactly one interval after the only sample, found
\* a valid render cache, and nothing was read
C4_Witness ==
    /\ is_initialized
    /\ refreshes = 1
    /\ now - last_sample_time = IntervalMicros
    /\ IsSome(Unwrap(cpu).cache)

\* per series: its cache is valid exactly if no sample was inserted since
\* its geometry was built, and a valid cache holds the geometry of the
\* samples the series holds now
CacheFollowsInserts ==
    \A n \in Names :
        IsSome(Chart(n)) =>
            /\ IsSome(Unwrap(Chart(n)).cache) <=> ~inserted[n]
            /\ IsSome(Unwrap(Chart(n)).cache) =>
                   Unwrap(Unwrap(Chart(n)).cache).geometry
                       = BuildChart(Unwrap(Chart(n)))

Draws(n, b) == IF n = "cpu" THEN DrawCpu(b) ELSE DrawMemory(b)

\* what build_chart makes of series n, cached for bounds b
Rebuilt(n, b) == Some([bounds |-> b, geometry |-> BuildChart(Unwrap(Chart(n)))])

\* C5, as stated: the cache of a series is valid exactly if no sample was
\* inserted since it was built; a draw that finds it valid hands back the
\* cached geometry and rebuilds nothing; a draw after a push rebuilds it
\* from the samples of the series.
C5_DrawReusesValidCache ==
    [][/\ CacheFollowsInserts'
       /\ \A n \in Names, b \in Bounds :
             Draws(n, b) =>
                 IF IsSome(Unwrap(Chart(n)).cache)
                 THEN Chart(n)' = Chart(n)
                 ELSE Unwrap(Chart(n)').cache = Rebuilt(n, b)
      ]_vars

\* C5, amended: the cache of a series is valid exactly if no sample was
\* inserted since it was built; a draw that finds it valid for the bounds
\* it draws at hands back the cached geometry and rebuilds nothing; a draw
\* after a push, or at other bounds, rebuilds it from the samples of the
\* series.
C5_DrawReusesCacheForBounds ==
    [][/\ CacheFollowsInserts'
       /\ \A n \in Names, b \in Bounds :
             Draws(n, b) =>
                 IF /\ IsSome(Unwrap(Chart(n)).cache)
                    /\ Unwrap(Unwrap(Chart(n)).cache).bounds = b
                 THEN Chart(n)' = Chart(n)
                 ELSE Unwrap(Chart(n)').cache = Rebuilt(n, b)
      ]_vars

\* C5's case: the CPU series was pushed to and then drawn: its cache holds
\* the geometry of both samples
C5_Witness ==
    /\ is_initialized
    /\ Len(Points(cpu)) = 2
    /\ ~inserted.cpu
    /\ IsSome(Unwrap(cpu).cache)
    /\ Unwrap(Unwrap(cpu).cache).geometry.points = Points(cpu)

\* a percentage clamped to the chart's value domain
Clamp(v) == IF v < Y_MIN THEN Y_MIN ELSE IF v > Y_MAX THEN Y_MAX ELSE v

\* C6: every value update() stores lies in [0, 100]; a reading outside is
\* clamped (137 is stored as 100, -5 as 0).
C6_StoredValuesClamped ==
    /\ \A n \in Names : \A i \in 1..Len(Points(Chart(n))) :
           Points(Chart(n))[i][2] \in Y_MIN..Y_MAX
    /\ is_initialized => Points(cpu)[1][2] = Clamp(CpuData(sys))

\* C8: the applet starts with no series; the first update(), whatever time
\* has passed, makes both series, each of the one sample just read; an
\* initialized applet stays initialized, and later samples are pushed into
\* the series it has.
C8_InitializedByFirstUpdate ==
    /\ cpu = None /\ memory = None
    /\ [][/\ (~is_initialized /\ TickStep) =>
                /\ Sampled
                /\ \E u \in UtcNows :
                      /\ cpu' = Some(NewChart(<<<<u, CpuData(sys')>>>>))
                      /\ memory' = Some(NewChart(<<<<u, MemoryDataOf[sys']>>>>))
          /\ IsSome(cpu) <=> IsSome(memory)
          /\ is_initialized => IsSome(cpu') /\ IsSome(memory')
          /\ (is_initialized /\ Sampled) =>
                \A n \in Names :
                    /\ OneSampleAdded(Chart(n), Chart(n)')
                    /\ Unwrap(Chart(n)').limit = Unwrap(Chart(n)).limit
                    /\ (Points(Chart(n)')[1][1] = Points(Chart(n))[1][1]) =>
                           Tail(Points(Chart(n)')) = Points(Chart(n))
         ]_vars

\* C8's case: the first Tick came with no time passed and made both series
C8_Witness ==
    /\ now = 0
    /\ refreshes = 1
    /\ Len(Points(cpu)) = 1
    /\ Len(Points(memory)) = 1

\* what sampling keeps: the samples of both series, the last-sample
\* instant, and whether the applet is initialized
SamplingState ==
    <<Points(cpu), Points(memory), last_sample_time, IsSome(cpu),
      IsSome(memory)>>

\* C9: handling Config or TogglePopup, or viewing, leaves the sampling
\* state as it was: only a Tick changes it.
C9_OnlyTickSamples ==
    [][/\ (ConfigStep \/ TogglePopup \/ ViewWindow) =>
              SamplingState' = SamplingState
       /\ SamplingState' # SamplingState => TickStep
      ]_vars

\* C9's case: the popup was toggled open on an applet that holds samples
C9_Witness ==
    /\ IsSome(popup)
    /\ is_initialized
    /\ Len(Points(cpu)) = 2

\* C10: the memory percentage update() stores is floor(used / total * 100).
C10_MemoryIsFloor ==
    is_initialized =>
        Points(memory)[1][2] = (sys.used_memory * 100) \div sys.total_memory

\* C11: view() shows the "Loading..." placeholder if and only if the applet
\* is uninitialized, shows the CPU and the Memory chart in every
\* initialized state, and in no reachable state unwraps a missing series.
C11_ViewLoadingOrCharts ==
    /\ SystemChartView = Loading <=> ~is_initialized
    /\ is_initialized => SystemChartView = Charts
    /\ SystemChartView # Panic

\* C11's case: the popup is open on an initialized applet and shows the
\* two charts
C11_Witness ==
    /\ IsSome(popup)
    /\ is_initialized
    /\ SystemChartView = Charts

\* what a draw may change of a series: its cache, nothing else
SeriesData(o) == IF IsSome(o) THEN <<Unwrap(o).data_points, Unwrap(o).limit>>
                 ELSE <<>>
Cache(o) == IF IsSome(o) THEN Unwrap(o).cache ELSE None
Other(n) == IF n = "cpu" THEN "memory" ELSE "cpu"

Drawn == IsSome(series) /\ IsSome(Unwrap(series).cache)
Geometry == Unwrap(Unwrap(series).cache).geometry

\* the timestamp build_chart takes for the newest: the front sample's, or
\* the zero instant for a series without samples
NewestOrEpoch == IF SeriesPoints # <<>> THEN SeriesPoints[1][1] ELSE 0

\* C13: the time domain of every chart built is
\* [newest - window, newest], newest being the timestamp of the front
\* sample (the zero instant for a series without samples); its span is
\* strictly positive, also for a series of one sample or of none.
C13_DomainIsWindowBeforeNewest ==
    Drawn =>
        /\ Geometry.x = <<NewestOrEpoch - WindowMicros, NewestOrEpoch>>
        /\ Geometry.x[1] < Geometry.x[2]

\* C13's case: a push evicted the only other sample and the series, of one
\* sample, was drawn
C13_Witness ==
    /\ Drawn
    /\ Len(pushed) = 2
    /\ Len(SeriesPoints) = 1
    /\ Geometry.x[2] = SeriesPoints[1][1]

\* C14: after every push, whatever the order of the timestamps pushed,
\* every retained sample is at most the window (60 s) older than the front
\* sample.  Stated on whole milliseconds, as push_data compares them: a
\* sample within 60 s of the front one is within 60000 whole milliseconds
\* of it, so a state that fails this fails the claim on exact timestamps.
C14_WithinWindowAnyOrder ==
    IsSome(series) =>
        \A i \in 1..Len(SeriesPoints) :
            TimestampMillis(SeriesPoints[1][1])
              - TimestampMillis(SeriesPoints[i][1]) <= WindowMillis

NonIncreasing(h) == \A i \in 1..(Len(h) - 1) : h[i][1] >= h[i + 1][1]

\* C15, as stated: the points a rebuild hands to the area series are the
\* retained samples in chronological order: for pushes with non-decreasing
\* timestamps, non-decreasing from the first point to the last.
C15_PointsChronological ==
    (Drawn /\ NonDecreasing(pushed)) =>
        /\ Len(Geometry.points) = Len(SeriesPoints)
        /\ NonDecreasing(Geometry.points)

\* C15, amended: the points a rebuild hands to the area series are all
\* retained samples in the order the series holds them, front to back: for
\* pushes with non-decreasing timestamps that is newest first, the
\* timestamps non-increasing from the first point to the last.
C15_PointsNewestFirst ==
    Drawn =>
        /\ Geometry.points = SeriesPoints
        /\ NonDecreasing(pushed) => NonIncreasing(Geometry.points)

\* C15's case: a series given (0 s), (30 s) was drawn: the points are
\* (30 s), (0 s)
C15_Witness ==
    /\ Drawn
    /\ Len(pushed) = 2
    /\ Len(Geometry.points) = 2
    /\ Geometry.points[1][1] = 30000000
    /\ Geometry.points[2][1] = 0

\* the samples of data_points are the last ones of the history h, the
\* latest first: whatever is gone from h went from the back of the series
NewestOf(data_points, h) ==
    /\ Len(data_points) <= Len(h)
    /\ \A i \in 1..Len(data_points) : data_points[i] = h[Len(h) + 1 - i]

\* C16: for pushes with non-decreasing timestamps the series is ordered
\* newest first in every state: the timestamps of the retained samples do
\* not increase from front to back, the front sample is the one pushed
\* last, and samples are only ever removed from the back.
C16_NewestFirst ==
    (IsSome(series) /\ NonDecreasing(pushed)) =>
        /\ NonIncreasing(SeriesPoints)
        /\ SeriesPoints[1] = Last(pushed)
        /\ NewestOf(SeriesPoints, pushed)

\* C16's case: four pushes, two of them at the same instant, the last of
\* which evicted the sample at the back
C16_Witness ==
    /\ IsSome(series)
    /\ NonDecreasing(pushed)
    /\ Len(pushed) = 4
    /\ pushed[2][1] = pushed[3][1]
    /\ Len(SeriesPoints) = 3

\* the chart of a series without samples: the window before the zero
\* instant, and no point
PlaceholderGeometry ==
    [x |-> <<0 - WindowMicros, 0>>, y |-> <<Y_MIN, Y_MAX>>, points |-> <<>>]

C18_SeriesPresentTogether ==
    /\ IsSome(cpu) <=> IsSome(memory)
    /\ is_initialized <=> IsSome(memory)

\* C18's case: three samples were taken and both series are there
C18_Witness ==
    /\ refreshes = 3
    /\ IsSome(cpu)
    /\ IsSome(memory)

\* the timestamps of the samples of a series, front to back
Timestamps(o) == [i \in 1..Len(Points(o)) |-> Points(o)[i][1]]

\* C19: in every initialized state the CPU series and the Memory series
\* hold the same number of samples, with the same timestamp at each
\* position.
C19_SeriesInLockstep ==
    is_initialized =>
        /\ Len(Points(cpu)) = Len(Points(memory))
        /\ Timestamps(cpu) = Timestamps(memory)

\* C19's case: the third sample, 61 s after the other two, evicted both of
\* them from both series
C19_Witness ==
    /\ refreshes = 3
    /\ Timestamps(cpu) = <<61000000>>
    /\ Timestamps(memory) = <<61000000>>

\* the samples a window holds at one per sampling interval, and the newest
MaxHeld == (PLOT_SECONDS * MillisPerSec) \div SAMPLE_EVERY_MS + 1

\* C20: when the timestamps of consecutive samples advance by at least the
\* sampling interval (1000 ms), a series never holds more than 61 samples,
\* however many are pushed.
C20_BufferBounded ==
    IsSome(series) => Len(SeriesPoints) <= MaxHeld

\* C20's case: samples a second apart filled the series to 61 samples, and
\* the pushes after that evicted as many as they inserted
C20_Witness ==
    /\ IsSome(series)
    /\ Len(SeriesPoints) = MaxHeld
    /\ SeriesPoints[1][1] >= (PLOT_SECONDS + 2) * MillisPerSec * MicrosPerMilli

====
